---- MODULE Spec2Model ----
(***************************************************************************)
(* Carrier integration core: the UPS OAuth token cache (UpsOAuthClient)    *)
(* with its single-flight refresh, and the UPS rate operation              *)
(* (UpsRateOperation.getRates) that uses it, and the service facade        *)
(* (CarrierService) that validates input and dispatches to the adapter.    *)
(*                                                                         *)
(* One token cache instance and the rate operation bound to it are         *)
(* modelled.  Every `await` of the source is a suspension point: the       *)
(* synchronous part of a call is one action, the continuation after an     *)
(* await is another.  When an acquisition settles, the reactions of the    *)
(* calls awaiting it are queued together, in attach order, on the job      *)
(* queue `mq`; jobs run first in, first out, so nothing runs between two   *)
(* reactions of one settlement.  The callers, invalidateToken(), the       *)
(* transport and the clock are the environment: they may act between any   *)
(* two other jobs.                                                         *)
(***************************************************************************)
EXTENDS Integers, Sequences, FiniteSets, Bags, TLC

-----------------------------------------------------------------------------
(* Bounds of the model *)

\* concurrent calls (getValidToken or getRates) that may be suspended at once
MaxCalls == 2
\* clock steps over one run
MaxTicks == 1
\* milliseconds the clock advances in one step
TickMs == 30000
\* rated-shipment records in one rate response
MaxRecords == 2

-----------------------------------------------------------------------------
(* Program constants *)

REFRESH_BUFFER_MS == 60 * 1000
DEFAULT_EXPIRES_IN == 3600

-----------------------------------------------------------------------------
(* Error taxonomy (domain/errors) *)

CarrierErrorCode ==
  {"AUTH_FAILED", "RATE_LIMITED", "INVALID_REQUEST", "NETWORK_ERROR",
   "TIMEOUT", "MALFORMED_RESPONSE", "CARRIER_ERROR", "VALIDATION_ERROR"}

\* httpStatus 0 and carrierCode "" stand for `undefined`; retryAfter is the
\* number of seconds embedded in the message (-1: none).
\* cie is TRUE for a CarrierIntegrationError, FALSE for any other thrown value
\* (an HttpError of the transport, a plain Error, a TypeError).
Err(cie, code, httpStatus, retryAfter, carrierCode) ==
  [cie |-> cie, code |-> code, httpStatus |-> httpStatus,
   retryAfter |-> retryAfter, carrierCode |-> carrierCode]

NoError == Err(FALSE, "", 0, -1, "")

authError == Err(TRUE, "AUTH_FAILED", 0, -1, "")

\* retryAfter: a number, or -1 for undefined.  The message embeds the value
\* only when it is truthy (0 and NaN are not).
rateLimitError(retryAfter) ==
  Err(TRUE, "RATE_LIMITED", 429, IF retryAfter > 0 THEN retryAfter ELSE -1, "")

invalidRequestError(carrierCode) == Err(TRUE, "INVALID_REQUEST", 400, -1, carrierCode)

timeoutError == Err(TRUE, "TIMEOUT", 0, -1, "")

malformedResponseError == Err(TRUE, "MALFORMED_RESPONSE", 0, -1, "")

carrierError(httpStatus, carrierCode) ==
  Err(TRUE, "CARRIER_ERROR", httpStatus, -1, carrierCode)

validationError == Err(TRUE, "VALIDATION_ERROR", 0, -1, "")

\* a value thrown by the transport (HttpError with a code) or by the runtime
rawError(code) == Err(FALSE, code, 0, -1, "")

-----------------------------------------------------------------------------
(* Transport outcomes: what http.send may produce *)

\* `undefined` where a string is expected
Undefined == "undefined"

\* header values are digit strings; <<>> is the absent header
NoHeader == <<>>
RetryAfterHeaders == {NoHeader, <<0>>, <<3, 0>>}

RECURSIVE parseIntDigits(_, _)
parseIntDigits(s, acc) ==
  IF s = <<>> THEN acc ELSE parseIntDigits(Tail(s), acc * 10 + Head(s))

\* parseInt(header, 10) of a digit string
parseInt(s) == parseIntDigits(s, 0)

\* `retryAfter ? parseInt(retryAfter, 10) : undefined`
retryAfterOf(header) == IF header = NoHeader THEN -1 ELSE parseInt(header)

HttpErrorCodes == {"ETIMEDOUT", "ECONNRESET", "ENOTFOUND", "ABORT_ERR"}

\* The adapters built by createUpsAdapter: each is a UpsOAuthClient and the
\* UpsRateOperation bound to it.  An adapter is named by the id it is
\* registered under.
Adapters == {"ups", "ups2"}

\* the access_token string the token endpoint issues in answer to the token
\* request of acquisition p of adapter a
AccessTokenOf(a, p) == <<"tok", a, p>>
\* expires_in of the token body; -1 is the absent field
NoExpiresIn == -1
ExpiresInChoices == {NoExpiresIn, 30, 90}

\* Token-endpoint body: kind "ok" carries a string access_token; "notJson"
\* does not parse; "noToken" is JSON without access_token; "nonString" has
\* an access_token that is not a string.
TokenBody(kind, tok, exp) == [kind |-> kind, access_token |-> tok, expires_in |-> exp]

NoAccessToken == <<>>
BadTokenBody(kind) == TokenBody(kind, NoAccessToken, NoExpiresIn)

TokenBodies(a, p) ==
  {TokenBody("ok", AccessTokenOf(a, p), e) : e \in ExpiresInChoices}
    \cup {BadTokenBody(k) : k \in {"notJson", "noToken", "nonString"}}

\* fail = "" for a response, else the HttpError code of the failure
Outcome(fail, status, header, body) ==
  [retryAfter |-> header, fail |-> fail, status |-> status, body |-> body]

\* what the send of acquisition p of adapter a may produce
TokenOutcomes(a, p) ==
  {Outcome("", 200, NoHeader, b) : b \in TokenBodies(a, p)}
    \cup {Outcome("", s, NoHeader, BadTokenBody("notJson")) : s \in {201, 401, 403, 500}}
    \cup {Outcome("", 429, h, BadTokenBody("notJson")) : h \in RetryAfterHeaders}
    \cup {Outcome(f, 0, NoHeader, BadTokenBody("notJson")) : f \in HttpErrorCodes}

\* One outcome per way an acquisition can end that the cache can tell
\* apart: a token that outlives a clock step, a token that a clock step
\* makes stale, a CarrierIntegrationError, a raw transport error
SampleTokenOutcomes(a, p) ==
  {Outcome("", 200, NoHeader, TokenBody("ok", AccessTokenOf(a, p), e)) :
     e \in {NoExpiresIn, 90}}
    \cup {Outcome("", 401, NoHeader, BadTokenBody("notJson")),
          Outcome("ECONNRESET", 0, NoHeader, BadTokenBody("notJson"))}

\* The two ways a token request can end that matter to who waits on whom:
\* a token, and the timeout of the transport
LiveTokenOutcomes(a, p) ==
  {Outcome("", 200, NoHeader, TokenBody("ok", AccessTokenOf(a, p), NoExpiresIn)),
   Outcome("ETIMEDOUT", 0, NoHeader, BadTokenBody("notJson"))}

-----------------------------------------------------------------------------
(* Token cache: pure parts of UpsOAuthClient *)

\* CachedToken | null
NoToken == [accessToken |-> NoAccessToken, expiresAtMs |-> 0]
CachedToken(tok, exp) == [accessToken |-> tok, expiresAtMs |-> exp]

isTokenValid_NoBuffer(cached, t) ==
  /\ cached # NoToken
  /\ t < cached.expiresAtMs

\* isTokenValid(cached) with Date.now() = t
isTokenValid(cached, t) ==
  /\ cached # NoToken
  /\ t < cached.expiresAtMs - REFRESH_BUFFER_MS

\* A settled or thrown value: ok with a token, or an error
Ok(token) == [ok |-> TRUE, token |-> token, error |-> NoError]
Thrown(error) == [ok |-> FALSE, token |-> NoToken, error |-> error]

\* What getValidToken() gives its caller: the access token string
\* (`token.accessToken`), or the error its await threw
Returned(accessToken) == [ok |-> TRUE, accessToken |-> accessToken, error |-> NoError]
Rejected(error) == [ok |-> FALSE, accessToken |-> NoAccessToken, error |-> error]
NoReturn == Rejected(NoError)

parseOAuthResponse_NoTypeCheck(body) ==
  IF body.kind \in {"ok", "nonString"}
    THEN [ok |-> TRUE, access_token |-> body.access_token,
          expires_in |-> body.expires_in, error |-> NoError]
    ELSE [ok |-> FALSE, access_token |-> NoAccessToken, expires_in |-> NoExpiresIn,
          error |-> authError]

\* parseOAuthResponse(body): the OAuthTokenResponse, or authError thrown from
\* its catch (JSON.parse failure, missing access_token, non-string token)
parseOAuthResponse(body) ==
  IF body.kind = "ok"
    THEN [ok |-> TRUE, access_token |-> body.access_token,
          expires_in |-> body.expires_in, error |-> NoError]
    ELSE [ok |-> FALSE, access_token |-> NoAccessToken, expires_in |-> NoExpiresIn,
          error |-> authError]

acquireToken_NoTimeoutCatch(out, t) ==
  IF out.fail # "" THEN Thrown(rawError(out.fail))
  ELSE IF out.status = 429
    THEN Thrown(rateLimitError(retryAfterOf(out.retryAfter)))
  ELSE IF out.status # 200
    THEN Thrown(authError)
  ELSE LET data == parseOAuthResponse(out.body)
           expiresInSeconds ==
             IF data.expires_in = NoExpiresIn THEN DEFAULT_EXPIRES_IN
             ELSE data.expires_in
       IN IF data.ok
            THEN Ok(CachedToken(data.access_token, t + expiresInSeconds * 1000))
            ELSE Thrown(data.error)

\* acquireToken(): what the promise settles to, given the transport outcome
\* `out` of its send and Date.now() = t when the response is handled
acquireToken(out, t) ==
  IF out.fail # ""
    THEN IF out.fail = "ETIMEDOUT"
           THEN Thrown(timeoutError)
           ELSE Thrown(rawError(out.fail))
  ELSE IF out.status = 429
    THEN Thrown(rateLimitError(retryAfterOf(out.retryAfter)))
  ELSE IF out.status = 401 \/ out.status = 403
    THEN Thrown(authError)
  ELSE IF out.status # 200
    THEN Thrown(authError)
  ELSE LET data == parseOAuthResponse(out.body)
           expiresInSeconds ==
             IF data.expires_in = NoExpiresIn THEN DEFAULT_EXPIRES_IN
             ELSE data.expires_in
       IN IF data.ok
            THEN Ok(CachedToken(data.access_token, t + expiresInSeconds * 1000))
            ELSE Thrown(data.error)

\* Which branch the synchronous part of getValidToken() takes, given the
\* cache slot, Date.now() = t and the in-flight marker rp (0 is null)
getValidTokenBranch(cached, t, rp) ==
  IF isTokenValid(cached, t) THEN "hit"
  ELSE IF rp # 0 THEN "waiter"
  ELSE "initiator"

\* `await this.refreshPromise` in an attached caller: the promise's outcome
awaitRefreshPromise_Rewrap(settled) ==
  IF settled.ok THEN settled ELSE Thrown(authError)

awaitRefreshPromise(settled) == settled

\* `return token.accessToken` after the await, or the await's throw
returnAfterAwait(awaited) ==
  IF awaited.ok THEN Returned(awaited.token.accessToken)
  ELSE Rejected(awaited.error)

\* `this.cached = token` of the initiator: runs only when the await did not
\* throw.  rp is the marker when the initiator resumes, p its own promise.
cachedAfterAwait_OwnOnly(settled, old, rp, p) ==
  IF settled.ok /\ rp = p THEN settled.token ELSE old

cachedAfterAwait(settled, old, rp, p) ==
  IF settled.ok THEN settled.token ELSE old

markerAfterAwait_OnSuccessOnly(settled, rp) == IF settled.ok THEN 0 ELSE rp

\* `finally { this.refreshPromise = null }` of the initiator
markerAfterAwait(settled, rp) == 0

-----------------------------------------------------------------------------
(* Mapper: domain model to and from the UPS wire format (ups/rating-mapper) *)

\* An optional text field whose characters matter: absent, or a sequence
\* of one-character strings
Absent == [defined |-> FALSE, value |-> <<>>]
Some(chars) == [defined |-> TRUE, value |-> chars]

\* ServiceLevelFilter; NoFilter is a request without serviceLevel
ServiceLevelFilter(serviceCode, description) ==
  [serviceCode |-> serviceCode, description |-> description, present |-> TRUE]
NoFilter == [serviceCode |-> Absent, description |-> Absent, present |-> FALSE]

\* the part of a RateRequest the encoder's mode depends on
RateRequest(serviceLevel) == [serviceLevel |-> serviceLevel]

\* serviceCode: absent, empty, a UPS service code, eleven characters
ServiceCodes ==
  {Absent, Some(<<>>), Some(<<"0", "3">>),
   Some(<<"0", "1", "2", "3", "4", "5", "6", "7", "8", "9", "0">>)}
Descriptions == {Absent, Some(<<"G", "n", "d">>)}
RateRequests ==
  {RateRequest(NoFilter)}
    \cup {RateRequest(ServiceLevelFilter(c, d)) : c \in ServiceCodes, d \in Descriptions}

\* serviceLevelFilterSchema, and `.optional()` on the serviceLevel field
serviceLevelFilterSchema(filter) ==
  filter.present /\ filter.serviceCode.defined => Len(filter.serviceCode.value) <= 10

\* `request.serviceLevel?.serviceCode` as a condition: undefined and the
\* empty string are falsy
hasServiceCode(request) ==
  /\ request.serviceLevel.present
  /\ request.serviceLevel.serviceCode.defined
  /\ request.serviceLevel.serviceCode.value # <<>>

REQUEST_OPTION_SHOP == "Shop"
REQUEST_OPTION_RATE == "Rate"

\* Shipment.Service of the wire request; NoWireService when it is not set
WireService(code, description) ==
  [present |-> TRUE, Code |-> code, Description |-> description]
NoWireService == [present |-> FALSE, Code |-> <<>>, Description |-> <<>>]

\* buildUpsRateRequest(request): the request option and Shipment.Service
buildUpsRateRequest(request) ==
  [RequestOption |-> IF hasServiceCode(request) THEN REQUEST_OPTION_RATE
                     ELSE REQUEST_OPTION_SHOP,
   Service |-> IF hasServiceCode(request)
                 THEN WireService(request.serviceLevel.serviceCode.value,
                                  IF request.serviceLevel.description.defined
                                    THEN request.serviceLevel.description.value
                                    ELSE request.serviceLevel.serviceCode.value)
                 ELSE NoWireService]

getUpsRatePath_ByPresence(request) ==
  <<"/rating/v2409/",
    IF request.serviceLevel.present THEN REQUEST_OPTION_RATE ELSE REQUEST_OPTION_SHOP>>

\* getUpsRatePath(request): `/rating/${RATE_VERSION}/${option}`
getUpsRatePath(request) ==
  <<"/rating/v2409/",
    IF hasServiceCode(request) THEN REQUEST_OPTION_RATE ELSE REQUEST_OPTION_SHOP>>

\* A JS number: NaN, or a decimal amount held in hundredths
NaN == [nan |-> TRUE, hundredths |-> 0]
Num(hundredths) == [nan |-> FALSE, hundredths |-> hundredths]

IsDigit(c) == c \in {"0", "1", "2", "3", "4", "5", "6", "7", "8", "9"}
DigitValue(c) ==
  CASE c = "0" -> 0 [] c = "1" -> 1 [] c = "2" -> 2 [] c = "3" -> 3 [] c = "4" -> 4
    [] c = "5" -> 5 [] c = "6" -> 6 [] c = "7" -> 7 [] c = "8" -> 8 [] c = "9" -> 9

\* the longest prefix of s made of digits
RECURSIVE digitPrefix(_)
digitPrefix(s) ==
  IF s = <<>> \/ ~IsDigit(Head(s)) THEN <<>>
  ELSE <<Head(s)>> \o digitPrefix(Tail(s))

RECURSIVE digitsValue(_, _)
digitsValue(s, acc) ==
  IF s = <<>> THEN acc ELSE digitsValue(Tail(s), acc * 10 + DigitValue(Head(s)))

\* parseFloat(s): an optional minus sign, digits, an optional fraction; what
\* follows is ignored, and a text with no digit there is NaN.  Amounts have
\* at most two decimals.
parseFloat(s) ==
  LET negative == s # <<>> /\ Head(s) = "-"
      unsigned == IF negative THEN Tail(s) ELSE s
      whole == digitPrefix(unsigned)
      rest == SubSeq(unsigned, Len(whole) + 1, Len(unsigned))
      fraction == IF rest # <<>> /\ Head(rest) = "." THEN digitPrefix(Tail(rest))
                  ELSE <<>>
      magnitude == digitsValue(whole, 0) * 100
                     + digitsValue(SubSeq(fraction \o <<"0", "0">>, 1, 2), 0)
  IN IF whole = <<>> /\ fraction = <<>> THEN NaN
     ELSE Num(IF negative THEN 0 - magnitude ELSE magnitude)

\* { CurrencyCode?, MonetaryValue? } of TransportationCharges or of
\* NegotiatedRateCharges.TotalCharge; NoCharges when the object is absent
Charges(value, currency) ==
  [present |-> TRUE, MonetaryValue |-> value, CurrencyCode |-> currency]
NoCharges == [present |-> FALSE, MonetaryValue |-> Absent, CurrencyCode |-> Undefined]

\* Service { Code, Description? } of a rated shipment
UpsService(code, description) ==
  [present |-> TRUE, Code |-> code, Description |-> description]
NoUpsService == [present |-> FALSE, Code |-> Undefined, Description |-> Undefined]

\* UpsRatedShipment: the fields the decoder reads.  days is
\* TimeInTransit.ServiceSummary.BusinessTransitDays as a digit string,
\* <<>> when absent
UpsRatedShipment(service, transportation, negotiated, days) ==
  [Service |-> service, TransportationCharges |-> transportation,
   NegotiatedTotalCharge |-> negotiated, BusinessTransitDays |-> days]

NegotiatedChoices ==
  {NoCharges,
   Charges(Some(<<"1", "0", ".", "0", "0">>), "EUR"),
   Charges(Some(<<"1", "0", ".", "0", "0">>), Undefined),
   Charges(Absent, "EUR"),
   Charges(Some(<<"-", "5", ".", "0", "0">>), "EUR")}
TransportationChoices ==
  {NoCharges,
   Charges(Some(<<"1", "2", ".", "5", "0">>), "CAD"),
   Charges(Some(<<"0">>), Undefined),
   Charges(Some(<<"a", "b", "c">>), "CAD")}
RatedShipments ==
  {UpsRatedShipment(UpsService("03", "Ground"), t, n, <<2>>) :
     t \in TransportationChoices, n \in NegotiatedChoices}
    \cup {UpsRatedShipment(NoUpsService, t, n, <<>>) :
            t \in TransportationChoices, n \in NegotiatedChoices}

\* RateQuote; transitDays -1 is undefined
RateQuote(serviceName, serviceCode, totalCharge, currencyCode, transitDays, carrierId) ==
  [serviceName |-> serviceName, serviceCode |-> serviceCode,
   totalCharge |-> totalCharge, currencyCode |-> currencyCode,
   transitDays |-> transitDays, carrierId |-> carrierId]

chargeOf_TransportationFirst(s) ==
  IF s.TransportationCharges.MonetaryValue.defined THEN s.TransportationCharges
  ELSE IF s.NegotiatedTotalCharge.MonetaryValue.defined THEN s.NegotiatedTotalCharge
  ELSE NoCharges

\* the charge object mapRatedShipmentToQuote reads the amount and the
\* currency from: the negotiated total charge when its MonetaryValue is
\* not undefined, else the transportation charges when theirs is not,
\* else none
chargeOf(s) ==
  IF s.NegotiatedTotalCharge.MonetaryValue.defined THEN s.NegotiatedTotalCharge
  ELSE IF s.TransportationCharges.MonetaryValue.defined THEN s.TransportationCharges
  ELSE NoCharges

\* mapRatedShipmentToQuote(s, carrierId)
mapRatedShipmentToQuote(s, carrierId) ==
  LET charge == chargeOf(s)
  IN RateQuote(
       IF s.Service.present /\ s.Service.Description # Undefined
         THEN s.Service.Description
       ELSE IF s.Service.present THEN s.Service.Code
       ELSE "Unknown",
       IF s.Service.present THEN s.Service.Code ELSE "",
       IF charge.present THEN parseFloat(charge.MonetaryValue.value) ELSE Num(0),
       IF charge.present /\ charge.CurrencyCode # Undefined THEN charge.CurrencyCode
       ELSE "USD",
       IF s.BusinessTransitDays = <<>> THEN -1 ELSE parseInt(s.BusinessTransitDays),
       carrierId)

\* RateResponse.RatedShipment: undefined, one object, or an array
NoRated == [kind |-> "undefined", items |-> <<>>]
RatedObject(s) == [kind |-> "object", items |-> <<s>>]
RatedArray(items) == [kind |-> "array", items |-> items]

ratedList_ArrayOnly(rated) == IF rated.kind = "array" THEN rated.items ELSE <<>>

\* `Array.isArray(rated) ? rated : [rated]`
ratedList(rated) == IF rated.kind = "array" THEN rated.items ELSE <<rated.items[1]>>

\* `list.map((s) => mapRatedShipmentToQuote(s, carrierId))`
mapRatedShipments(list, carrierId) ==
  [i \in 1 .. Len(list) |-> mapRatedShipmentToQuote(list[i], carrierId)]

keepQuote_Positive(q) == ~q.totalCharge.nan /\ q.totalCharge.hundredths > 0

\* `q.totalCharge >= 0`: false for a negative charge and for NaN
keepQuote(q) == ~q.totalCharge.nan /\ q.totalCharge.hundredths >= 0

\* `quotes.filter((q) => q.totalCharge >= 0)`
RECURSIVE filterQuotes(_)
filterQuotes(quotes) ==
  IF quotes = <<>> THEN <<>>
  ELSE (IF keepQuote(Head(quotes)) THEN <<Head(quotes)>> ELSE <<>>)
         \o filterQuotes(Tail(quotes))

\* const CARRIER_ID of the rate operation
CARRIER_ID == "ups"

-----------------------------------------------------------------------------
(* Rate operation: pure parts of UpsRateOperation *)

\* Rate-endpoint body: "rates" is a rate response with rated shipments;
\* "errors" is {response: {errors: [{code, message}]}}; "fault" is
\* {fault: {faultstring}}; "jsonNull" is the JSON text null; "notJson" does
\* not parse.  rated is RateResponse.RatedShipment and requestId is
\* RateResponse.Response.TransactionReference.CustomerContext.
RateBody(kind, code, rated) ==
  [code |-> code, kind |-> kind, rated |-> rated, requestId |-> Undefined]
RateResponseBody(rated, requestId) ==
  [RateBody("rates", "", rated) EXCEPT !.requestId = requestId]

\* a rate response with two rated shipments
SampleRated ==
  RatedArray(<<UpsRatedShipment(UpsService("03", "Ground"),
                                Charges(Some(<<"1", "2", ".", "5", "0">>), "CAD"),
                                NoCharges, <<2>>),
               UpsRatedShipment(NoUpsService, NoCharges,
                                Charges(Some(<<"1", "0", ".", "0", "0">>), "EUR"),
                                <<>>)>>)

\* no send handled
NoOutcome == Outcome("", 0, NoHeader, RateBody("", "", NoRated))

RateOutcomes ==
  {Outcome("", s, NoHeader, b) :
     s \in {200, 201},
     b \in {RateBody("rates", "", SampleRated), RateBody("notJson", "", NoRated),
            RateBody("jsonNull", "", NoRated)}}
    \cup {Outcome("", s, NoHeader, b) :
            s \in {401, 403},
            b \in {RateBody("notJson", "", NoRated), RateBody("rates", "", SampleRated)}}
    \cup {Outcome("", 429, h, RateBody("notJson", "", NoRated)) : h \in RetryAfterHeaders}
    \cup {Outcome("", s, NoHeader, b) :
            s \in {400, 404, 500},
            b \in {RateBody("notJson", "", NoRated), RateBody("jsonNull", "", NoRated),
                   RateBody("errors", "InvalidAddress", NoRated),
                   RateBody("fault", "", NoRated),
                   RateBody("rates", "", SampleRated)}}
    \cup {Outcome(f, 0, NoHeader, RateBody("notJson", "", NoRated)) : f \in HttpErrorCodes}

\* One outcome per effect a rate response has on the token cache and on the
\* call: a success, the two statuses that invalidate, a carrier error, a
\* transport failure
SampleRateOutcomes ==
  {Outcome("", 200, NoHeader, RateBody("rates", "", SampleRated)),
   Outcome("", 401, NoHeader, RateBody("notJson", "", NoRated)),
   Outcome("", 403, NoHeader, RateBody("notJson", "", NoRated)),
   Outcome("", 500, NoHeader, RateBody("fault", "", NoRated)),
   Outcome("ETIMEDOUT", 0, NoHeader, RateBody("notJson", "", NoRated))}

\* The request handed to getRates: "valid" is a RateRequest the encoder
\* accepts; "malformed" lacks a field the encoder reads (no origin), so
\* buildUpsRateRequest throws a TypeError
NoRequest == ""
Requests == {"valid", "malformed"}

\* What a caller hands to the service: besides the two shapes above,
\* "emptyAddressLines" is a complete request whose origin has an empty
\* addressLines list (the schema asks for one to three lines; the encoder
\* reads the list without complaint)
RawInputs == Requests \cup {"emptyAddressLines"}
NoInput == ""

\* getUpsRatePath(request) and buildUpsRateRequest(request) both return
requestBuilds(req) == req \in {"valid", "emptyAddressLines"}

parseRateRequest_AcceptAll(input) == [success |-> TRUE, data |-> input]

\* parseRateRequest(input): rateRequestSchema.safeParse(input)
parseRateRequest(input) ==
  [success |-> input = "valid", data |-> IF input = "valid" THEN input ELSE NoRequest]

\* CarrierResult<RateResponse>, or "throw" when getRates rejects
\* requestId is the request id of a success value
Result(out, quotes, error) ==
  [out |-> out, quotes |-> quotes, error |-> error, requestId |-> Undefined]
NoResult == Result("", <<>>, NoError)
Success(quotes) == Result("value", quotes, NoError)
Failure(error) == Result("error", <<>>, error)
Raised(error) == Result("throw", <<>>, error)
\* { quotes, requestId }
Decoded(quotes, requestId) == [Success(quotes) EXCEPT !.requestId = requestId]

\* parseUpsErrorResponse(status, body): JSON.parse of a non-JSON body and
\* the property read on null both land in its catch
parseUpsErrorResponse(status, body) ==
  IF body.kind \in {"notJson", "jsonNull"}
    THEN carrierError(status, "")
    ELSE IF status = 400
           THEN invalidRequestError(body.code)
           ELSE carrierError(status, body.code)

parseUpsRateResponse_Lenient(body) ==
  IF body.kind \in {"notJson", "jsonNull"} \/ body.rated = NoRated
    THEN Decoded(<<>>, body.requestId)
  ELSE Decoded(filterQuotes(mapRatedShipments(ratedList(body.rated), CARRIER_ID)),
               body.requestId)

\* parseUpsRateResponse(body, CARRIER_ID): the quotes, or a thrown Error
\* ("Malformed JSON in UPS rate response") or TypeError (body null)
parseUpsRateResponse(body) ==
  IF body.kind = "notJson" THEN Raised(rawError("Error"))
  ELSE IF body.kind = "jsonNull" THEN Raised(rawError("TypeError"))
  ELSE IF body.rated = NoRated THEN Decoded(<<>>, body.requestId)
  ELSE Decoded(filterQuotes(mapRatedShipments(ratedList(body.rated), CARRIER_ID)),
               body.requestId)

getRatesCatch_Rethrow(err) ==
  IF err.cie THEN Failure(err) ELSE Raised(err)

\* the catch block of getRates
getRatesCatch(err) ==
  IF err.cie THEN Failure(err)
  ELSE IF err.code = "ETIMEDOUT" THEN Failure(timeoutError)
  ELSE Failure(malformedResponseError)

\* The body of getRates after `await this.http.send(...)`: the result it
\* returns, and whether it called this.auth.invalidateToken()
Classified(result, invalidate) == [result |-> result, invalidate |-> invalidate]

classifyRateResponse_GenericFirst(out) ==
  IF out.fail # "" THEN Classified(getRatesCatch(rawError(out.fail)), FALSE)
  ELSE IF out.status >= 400
    THEN Classified(Failure(parseUpsErrorResponse(out.status, out.body)), FALSE)
  ELSE LET parsed == parseUpsRateResponse(out.body)
       IN IF parsed.out = "throw"
            THEN Classified(getRatesCatch(parsed.error), FALSE)
            ELSE Classified(parsed, FALSE)

classifyRateResponse_InvalidateOnError(out) ==
  IF out.fail # "" THEN Classified(getRatesCatch(rawError(out.fail)), FALSE)
  ELSE IF out.status = 401 \/ out.status = 403
    THEN Classified(Failure(authError), TRUE)
  ELSE IF out.status = 429
    THEN Classified(Failure(rateLimitError(retryAfterOf(out.retryAfter))), TRUE)
  ELSE IF out.status >= 400
    THEN Classified(Failure(parseUpsErrorResponse(out.status, out.body)), TRUE)
  ELSE LET parsed == parseUpsRateResponse(out.body)
       IN IF parsed.out = "throw"
            THEN Classified(getRatesCatch(parsed.error), FALSE)
            ELSE Classified(parsed, FALSE)

classifyRateResponse_DecodeFirst(out) ==
  IF out.fail # "" THEN Classified(getRatesCatch(rawError(out.fail)), FALSE)
  ELSE IF out.status = 401 \/ out.status = 403
    THEN Classified(Failure(authError), TRUE)
  ELSE IF out.status = 429
    THEN Classified(Failure(rateLimitError(retryAfterOf(out.retryAfter))), FALSE)
  ELSE LET parsed == parseUpsRateResponse(out.body)
       IN IF parsed.out = "throw"
            THEN IF out.status >= 400
                   THEN Classified(Failure(parseUpsErrorResponse(out.status, out.body)),
                                   FALSE)
                   ELSE Classified(getRatesCatch(parsed.error), FALSE)
            ELSE Classified(parsed, FALSE)

classifyRateResponse(out) ==
  IF out.fail # "" THEN Classified(getRatesCatch(rawError(out.fail)), FALSE)
  ELSE IF out.status = 401 \/ out.status = 403
    THEN Classified(Failure(authError), TRUE)
  ELSE IF out.status = 429
    THEN Classified(Failure(rateLimitError(retryAfterOf(out.retryAfter))), FALSE)
  ELSE IF out.status >= 400
    THEN Classified(Failure(parseUpsErrorResponse(out.status, out.body)), FALSE)
  ELSE LET parsed == parseUpsRateResponse(out.body)
       IN IF parsed.out = "throw"
            THEN Classified(getRatesCatch(parsed.error), FALSE)
            ELSE Classified(parsed, FALSE)

-----------------------------------------------------------------------------
(* Service facade: pure parts of CarrierService *)

\* config.carriers: the adapters built by createUpsAdapter, each registered
\* under its own id
Registered == Adapters
\* Array.from(config.carriers.keys()), in insertion order
RegisteredKeys == <<"ups", "ups2">>

\* options?.carrierId: absent, the empty string, a registered id, an
\* unregistered id
CarrierIdOptions == {Undefined, "", "ups", "ups2", "fedex"}

\* config.defaultCarrierIds: `defined` is FALSE when the field is absent
Defaults(defined, ids) == [defined |-> defined, ids |-> ids]
NoDefaults == Defaults(FALSE, <<>>)
DefaultChoices ==
  {NoDefaults, Defaults(TRUE, <<>>), Defaults(TRUE, <<"ups">>),
   Defaults(TRUE, <<"fedex", "ups">>), Defaults(TRUE, <<"ups2", "fedex", "ups">>)}

resolveCarrierId_DefaultFirst(option, defaults) ==
  IF defaults.defined /\ defaults.ids # <<>> THEN defaults.ids[1]
  ELSE option

\* `options?.carrierId ?? this.config.defaultCarrierIds?.[0]`
resolveCarrierId(option, defaults) ==
  IF option # Undefined THEN option
  ELSE IF defaults.defined /\ defaults.ids # <<>> THEN defaults.ids[1]
  ELSE Undefined

\* `!carrierId`
isFalsy(carrierId) == carrierId = Undefined \/ carrierId = ""

\* `this.config.carriers.get(carrierId)` yields an adapter
carriersGet(carrierId) == carrierId \in Registered

\* `this.config.defaultCarrierIds ?? Array.from(this.config.carriers.keys())`
carrierIdsOf(defaults) == IF defaults.defined THEN defaults.ids ELSE RegisteredKeys

\* the loop of getRatesFromAllCarriers up to its next adapter call: ids with
\* no adapter are passed over (`continue`)
RECURSIVE dropUnregistered(_)
dropUnregistered(ids) ==
  IF ids = <<>> THEN <<>>
  ELSE IF carriersGet(Head(ids)) THEN ids
  ELSE dropUnregistered(Tail(ids))

tagQuotes_Untagged(quotes, id) == quotes

\* `{ ...q, carrierId: id }` for each quote of one carrier's result
RECURSIVE tagQuotes(_, _)
tagQuotes(quotes, id) ==
  IF quotes = <<>> THEN <<>>
  ELSE <<[Head(quotes) EXCEPT !.carrierId = id]>> \o tagQuotes(Tail(quotes), id)

\* the value of getRatesFromAllCarriers
Aggregate(quotes, errors) == [quotes |-> quotes, errors |-> errors]
NoAggregate == Aggregate(<<>>, <<>>)

\* How a service call was made.  entry: "getRates" or "all"
\* (getRatesFromAllCarriers), "" for a call made on the adapter or the
\* token cache directly; input, option, defaults: the raw input, the
\* options.carrierId and the configured defaults of the call.
Via(entry, input, option, defaults) ==
  [entry |-> entry, input |-> input, option |-> option, defaults |-> defaults]
Direct == Via("", NoInput, Undefined, NoDefaults)

\* The service call in progress.  pc: "idle"; "await" (the call awaits the
\* adapter's getRates for carrier `current`); "ready" (that result is in
\* and the loop of getRatesFromAllCarriers is to go on with `ids`).
\* request: the validated request; quotes, errors: the accumulators of
\* getRatesFromAllCarriers; carrierIds: the list its loop runs over.
\* calls: the adapter calls the service call has made so far, in order,
\* each with the id it was made under and the result it gave (NoResult
\* while it is awaited).
Service(pc, entry, request, current, ids, quotes, errors) ==
  [pc |-> pc, entry |-> entry, request |-> request, current |-> current,
   ids |-> ids, quotes |-> quotes, errors |-> errors, carrierIds |-> <<>>,
   calls |-> <<>>]
IdleService == Service("idle", "", NoRequest, "", <<>>, <<>>, <<>>)

\* one adapter call of a service call
AdapterCall(carrierId, result) == [carrierId |-> carrierId, result |-> result]

\* the result of the adapter call that the service call awaits is in
answered(calls, result) ==
  [calls EXCEPT ![Len(calls)] = AdapterCall(@.carrierId, result)]

deliver_StopOnError(s, result) ==
  IF s.pc # "await" THEN s
  ELSE IF s.entry = "getRates" \/ result.out = "throw" THEN IdleService
  ELSE [s EXCEPT !.pc = "ready",
                 !.calls = answered(@, result),
                 !.ids = IF result.out = "error" THEN <<>> ELSE @,
                 !.quotes = IF result.out = "value"
                              THEN @ \o tagQuotes(result.quotes, s.current)
                              ELSE @,
                 !.errors = IF result.out = "error"
                              THEN Append(@, [carrierId |-> s.current,
                                              error |-> result.error])
                              ELSE @]

\* the adapter's getRates gave `result` to the service call that awaited it:
\* Service.getRates returns it unchanged; getRatesFromAllCarriers pushes the
\* tagged quotes or one errors entry
deliver(s, result) ==
  IF s.pc # "await" THEN s
  ELSE IF s.entry = "getRates" \/ result.out = "throw" THEN IdleService
  ELSE [s EXCEPT !.pc = "ready",
                 !.calls = answered(@, result),
                 !.quotes = IF result.out = "value"
                              THEN @ \o tagQuotes(result.quotes, s.current)
                              ELSE @,
                 !.errors = IF result.out = "error"
                              THEN Append(@, [carrierId |-> s.current,
                                              error |-> result.error])
                              ELSE @]

-----------------------------------------------------------------------------
(* State *)

VARIABLES
  now,             \* Date.now(), in ms
  cached,          \* UpsOAuthClient.cached of each adapter: CachedToken or
                   \* NoToken (null)
  refreshPromise,  \* UpsOAuthClient.refreshPromise of each adapter:
                   \* acquisition id, 0 is null
  acq,             \* the acquireToken() promises, by acquisition id
  mq,              \* promise reaction jobs that are ready, in queue order:
                   \* the calls to resume
  rateWait,        \* the getRates calls awaiting their rate response (a bag)
  ev,              \* what the step that led here did: a call started or
                   \* completed, or neither
  hist,            \* history of the run that the properties refer to
  service,         \* the call on the service facade that is in progress
  mapper           \* the mapper function under application: its input and,
                   \* once applied, its output

vars == <<now, cached, refreshPromise, acq, mq, rateWait, ev, hist, service, mapper>>

\* every call in progress may have its own acquisition in flight; an id is
\* free again once every awaiter of its acquisition has resumed
AcqIds == 1 .. MaxCalls

\* A call.  kind: "token" for getValidToken() called directly, "rates" for
\* getRates; req is its request once getRates has read it (to build the
\* rate request, after the token), NoRequest before.  pc: "await" on acquisition `acq`; "ready" and "follow" (its
\* reaction is queued: first of its settlement, or a later one);
\* "haveToken" (getValidToken() has returned to the call); "rateWait"
\* (getRates has sent its rate request); "returned" (getRates has
\* returned).  role: the branch of getValidToken() taken.
\* tokenSends/rateSends: the sends this call issued.  tok: what
\* getValidToken() gave this call; a rate request it sends carries
\* tok.accessToken as bearer.  adapter: the adapter the call is made on.
Call(kind, req, pc, role, a, tokenSends, rateSends, tok) ==
  [kind |-> kind, req |-> req, pc |-> pc, role |-> role, acq |-> a,
   tokenSends |-> tokenSends, rateSends |-> rateSends, tok |-> tok,
   adapter |-> ""]

\* the call is made on adapter a
On(call, a) == [call EXCEPT !.adapter = a]

NoCall == Call("", NoRequest, "idle", "", 0, 0, 0, NoReturn)

\* a promise returned by acquireToken(): state "unused" before its send,
\* "pending" while the token request is outstanding, then "fulfilled" or
\* "rejected" with `settled`, and "unused" again once every awaiter has
\* resumed.
\* waiters: the calls awaiting it, in attach order (moved to the job queue
\* when it settles).  live: the calls that await it and have not resumed.
\* invalidated: invalidateToken() ran while a call awaited it.  owner: the
\* adapter whose acquireToken() made it.
Acq(state, settled, waiters, live, invalidated) ==
  [state |-> state, settled |-> settled, waiters |-> waiters, live |-> live,
   invalidated |-> invalidated, owner |-> ""]

UnusedAcq == Acq("unused", Thrown(NoError), <<>>, 0, FALSE)

\* type "start": `call` began in the last step; before it, invalidateToken()
\* had run with no call since (afterInval), a 401/403 of the rate endpoint
\* had invalidated with no call since (afterAuth), an acquisition had
\* failed and its initiator returned with no call since (afterFail); a
\* getRates call that hit the cache and could not build its request has
\* returned already (pc "returned", with its result).
\* type "complete": getValidToken() returned or threw to `call` in the last
\* step, or its getRates returned (pc "returned"); promise is
\* the settled acquisition it awaited and invalidated that acquisition's
\* flag; rateStatus is the status of the rate response it handled (0:
\* none) and result what getRates returned.
\* type "settle": an acquisition settled in the last step; promise is what
\* it settled to.
\* type "service": a call on the service facade returned or threw in the
\* last step without awaiting an adapter, or getRatesFromAllCarriers
\* returned `all`.
\* out is the transport outcome the step handled (of the token request in
\* "settle", of the rate request when getRates returned on it).
\* entry is the service entry point the call belongs to; input, option and
\* defaults are set in the step in which the service call is made;
\* carrierIds and calls are those of the service call when
\* getRatesFromAllCarriers returns.
Event(type, call, afterInval, afterAuth, afterFail, promise, invalidated, rateStatus, result) ==
  [type |-> type, call |-> call, afterInval |-> afterInval,
   afterAuth |-> afterAuth, afterFail |-> afterFail,
   promise |-> promise, invalidated |-> invalidated,
   rateStatus |-> rateStatus, result |-> result, out |-> NoOutcome,
   entry |-> "", input |-> NoInput, option |-> Undefined,
   defaults |-> NoDefaults, all |-> NoAggregate, carrierIds |-> <<>>,
   calls |-> <<>>]

NoEvent ==
  Event("none", NoCall, FALSE, FALSE, FALSE, Thrown(NoError), FALSE, 0, NoResult)

Started(call, h, result) ==
  Event("start", call, h.invalPending, h.authPending, h.lastFailed,
        Thrown(NoError), FALSE, 0, result)

Completed(call, promise, invalidated, rateStatus, result) ==
  Event("complete", call, FALSE, FALSE, FALSE, promise, invalidated,
        rateStatus, result)

\* the step handled the transport outcome `out`
Handled(event, out) == [event EXCEPT !.out = out]

\* the step belongs to the service call `via`
Within(event, via) ==
  [event EXCEPT !.entry = via.entry, !.input = via.input,
                !.option = via.option, !.defaults = via.defaults]

\* the service call `via` returned `result` (and, from
\* getRatesFromAllCarriers, the aggregate `all`) or threw
ServiceReturned(via, result, all) ==
  [Within(Event("service", NoCall, FALSE, FALSE, FALSE, Thrown(NoError), FALSE, 0,
                result), via)
     EXCEPT !.all = all]

\* the service call `s` made the step that `event` describes
Of(event, s) == [event EXCEPT !.carrierIds = s.carrierIds, !.calls = s.calls]

\* the adapter's getRates returned in the step that `event` describes: its
\* result goes to the service call that awaited it
delivered(s, event) ==
  IF event.call.pc = "returned" THEN deliver(s, event.result) ELSE s

\* acquireToken() handled the outcome `out` of its send and settled
Settled(promise, out) ==
  Handled(Event("settle", NoCall, FALSE, FALSE, FALSE, promise, FALSE, 0, NoResult),
          out)

\* What happened since the last call started: invalidateToken() ran
\* (invalPending), a 401/403 of the rate endpoint invalidated (authPending),
\* the initiator of a failed acquisition resumed (lastFailed).
Hist(invalPending, authPending, lastFailed) ==
  [invalPending |-> invalPending,
   authPending |-> authPending, lastFailed |-> lastFailed]

\* An application of the encoder (kind "request") or of the decoder (kind
\* "body") to one input.  done: the function has been applied; path and
\* wire: getUpsRatePath and buildUpsRateRequest of the request; result:
\* parseUpsRateResponse of the body; mapped: the quotes of its records
\* before the filter; twin: parseUpsRateResponse of the same body with its
\* single rated shipment wrapped in an array.
Mapping(kind, request, body) ==
  [kind |-> kind, request |-> request, body |-> body, done |-> FALSE,
   path |-> <<>>, wire |-> buildUpsRateRequest(RateRequest(NoFilter)),
   result |-> NoResult, mapped |-> <<>>, twin |-> NoResult]
NoMapping == Mapping("", RateRequest(NoFilter), RateBody("", "", NoRated))

\* the values RateResponse.RatedShipment may take
RatedValues ==
  {NoRated} \cup {RatedObject(s) : s \in RatedShipments}
    \cup {RatedArray(items) :
            items \in UNION {[1 .. n -> RatedShipments] : n \in 0 .. MaxRecords}}
RequestIds == {Undefined, "req-1"}
RateResponseBodies ==
  {RateResponseBody(rated, id) : rated \in RatedValues, id \in RequestIds}
    \cup {RateBody("notJson", "", NoRated), RateBody("jsonNull", "", NoRated)}

MapperInputs ==
  {Mapping("request", r, RateBody("", "", NoRated)) : r \in RateRequests}
    \cup {Mapping("body", RateRequest(NoFilter), b) : b \in RateResponseBodies}

\* the adapters and the service over them, after construction
InitAdapter ==
  /\ now = 0
  /\ cached = [a \in Adapters |-> NoToken]
  /\ refreshPromise = [a \in Adapters |-> 0]
  /\ acq = [p \in AcqIds |-> UnusedAcq]
  /\ mq = <<>>
  /\ rateWait = EmptyBag
  /\ ev = NoEvent
  /\ hist = Hist(FALSE, FALSE, FALSE)
  /\ service = IdleService

Init == InitAdapter /\ mapper = NoMapping

\* the mapper alone, handed one input
InitMapper == InitAdapter /\ mapper \in MapperInputs

\* acquisitions whose token request is outstanding
Pending == {p \in AcqIds : acq[p].state = "pending"}

RECURSIVE SumLive(_, _)
SumLive(a, p) == IF p = 0 THEN 0 ELSE a[p].live + SumLive(a, p - 1)

\* calls suspended in getValidToken()
Awaiting(a) == SumLive(a, MaxCalls)

\* the id of the next acquireToken() promise.  When every call in progress
\* awaits a live acquisition no id is free, and no call can start either.
FreeAcq ==
  LET free == {p \in AcqIds : acq[p].state = "unused" /\ acq[p].live = 0}
  IN IF free = {} THEN 0 ELSE CHOOSE p \in free : \A q \in free : p <= q

\* calls in progress
InProgress == Awaiting(acq) + BagCardinality(rateWait)

\* the reactions queued by one settlement: the first is "ready", the others
\* "follow" it
RECURSIVE Reactions(_, _)
Reactions(waiters, pc) ==
  IF waiters = <<>> THEN <<>>
  ELSE <<[Head(waiters) EXCEPT !.pc = pc]>> \o Reactions(Tail(waiters), "follow")

\* the job queue is between two reactions of one settlement: the next job
\* is the second of them
MidSettlement == mq # <<>> /\ Head(mq).pc = "follow"

-----------------------------------------------------------------------------
(* Actions *)

sendRateRequest_Resend(call) ==
  [call EXCEPT !.pc = "rateWait", !.rateSends = @ + 2]

\* getRates with the token in hand: it builds the request and calls
\* http.send with the bearer token, in the continuation that received the
\* token
sendRateRequest(call) ==
  [call EXCEPT !.pc = "rateWait", !.rateSends = @ + 1]

\* getRates with the token in hand and a request the encoder throws on:
\* the TypeError lands in the catch block and getRates returns
buildFailure(call) == [call EXCEPT !.pc = "returned"]
buildFailureResult == getRatesCatch(rawError("TypeError"))

\* The synchronous part of getValidToken(), called directly (kind "token")
\* or as the first statement of getRates (kind "rates"), up to its first
\* await.  A direct call that hits the cache completes here.  At most
\* `limit` calls are in progress at once.  A getRates call is handed one
\* of `reqs`; `via` is the service call it is made for; a is the adapter
\* it is made on.
Start(a, kind, limit, reqs, via) ==
  LET branch == getValidTokenBranch(cached[a], now, refreshPromise[a])
  IN
  /\ ~MidSettlement
  /\ hist' = Hist(FALSE, FALSE, FALSE)
  /\ UNCHANGED <<now, cached, mapper>>
  /\ \/ /\ branch = "hit"
        /\ LET hit == On(Call(kind, NoRequest, "haveToken", "hit", 0, 0, 0,
                              Returned(cached[a].accessToken)), a)
           IN IF kind = "token"
                THEN /\ ev' = Within(Started(hit, hist, NoResult), via)
                     /\ UNCHANGED rateWait
                ELSE \E req \in reqs :
                       LET call == [hit EXCEPT !.req = req]
                       IN IF requestBuilds(req)
                            THEN /\ InProgress < limit
                                 /\ ev' = Within(Started(call, hist, NoResult), via)
                                 /\ rateWait' = rateWait (+)
                                                  SetToBag({sendRateRequest(call)})
                            ELSE /\ ev' = Within(Started(buildFailure(call), hist,
                                                         buildFailureResult), via)
                                 /\ UNCHANGED rateWait
        /\ UNCHANGED <<refreshPromise, acq, mq>>
     \/ /\ branch = "waiter"
        /\ InProgress < limit
        /\ LET p == refreshPromise[a]
               call == On(Call(kind, NoRequest, "await", "waiter", p, 0, 0, NoReturn), a)
           IN /\ ev' = Within(Started(call, hist, NoResult), via)
              /\ IF acq[p].state = "pending"
                   THEN /\ acq' = [acq EXCEPT ![p].waiters = Append(@, call),
                                              ![p].live = @ + 1]
                        /\ UNCHANGED mq
                   ELSE /\ acq' = [acq EXCEPT ![p].live = @ + 1]
                        /\ mq' = Append(mq, [call EXCEPT !.pc = "ready"])
        /\ UNCHANGED <<refreshPromise, rateWait>>
     \/ /\ branch = "initiator"
        /\ InProgress < limit
        /\ FreeAcq # 0
        /\ LET p == FreeAcq
               call == On(Call(kind, NoRequest, "await", "initiator", p, 1, 0,
                               NoReturn), a)
           IN /\ acq' = [acq EXCEPT ![p] =
                           [Acq("pending", Thrown(NoError), <<call>>, 1, FALSE)
                              EXCEPT !.owner = a]]
              /\ refreshPromise' = [refreshPromise EXCEPT ![a] = p]
              /\ ev' = Within(Started(call, hist, NoResult), via)
        /\ UNCHANGED <<mq, rateWait>>

\* calls that may overlap
StartGetValidToken ==
  Start("ups", "token", MaxCalls, {NoRequest}, Direct) /\ UNCHANGED service
StartGetRates ==
  Start("ups", "rates", MaxCalls, Requests, Direct) /\ UNCHANGED service
\* a getRates call made when the previous one has returned
StartGetRatesAlone ==
  Start("ups", "rates", 1, Requests, Direct) /\ UNCHANGED service
\* a getRates call is in progress, in getValidToken() or awaiting its rate
\* response
RatesCallInProgress ==
  \/ rateWait # EmptyBag
  \/ \E i \in DOMAIN mq : mq[i].kind = "rates"
  \/ \E p \in AcqIds : \E i \in DOMAIN acq[p].waiters : acq[p].waiters[i].kind = "rates"
\* a getRates call made when the previous getRates call has returned; it
\* may overlap getValidToken() calls
StartGetRatesInTurn ==
  /\ ~RatesCallInProgress
  /\ Start("ups", "rates", MaxCalls, {"valid"}, Direct)
  /\ UNCHANGED service
\* getRates calls on any of the adapters, which may overlap
StartGetRatesOnAny ==
  /\ \E a \in Adapters : Start(a, "rates", MaxCalls, {"valid"}, Direct)
  /\ UNCHANGED service

\* The token endpoint answers the request of acquisition p (or the
\* transport fails) with one of outcomes[a][p], a being the adapter of acquisition p, and acquireToken()
\* runs to its end: the promise settles and the reactions of its awaiters
\* are queued in attach order.
SettlePromise(p, outcomes) ==
  /\ ~MidSettlement
  /\ p \in Pending
  /\ \E out \in outcomes[acq[p].owner][p] :
    LET settled == acquireToken(out, now)
    IN /\ acq' = [acq EXCEPT ![p].state = IF settled.ok THEN "fulfilled"
                                          ELSE "rejected",
                             ![p].settled = settled,
                             ![p].waiters = <<>>]
       /\ mq' = mq \o Reactions(acq[p].waiters, "ready")
       /\ ev' = Settled(settled, out)
       /\ UNCHANGED <<now, cached, refreshPromise, rateWait, hist, service, mapper>>

\* any of the outstanding token requests is answered
Settle(outcomes) == \E p \in AcqIds : SettlePromise(p, outcomes)

SettleAcquisition ==
  Settle([a \in Adapters |-> [p \in AcqIds |-> SampleTokenOutcomes(a, p)]])
SettleAnyAcquisition ==
  Settle([a \in Adapters |-> [p \in AcqIds |-> TokenOutcomes(a, p)]])

\* The continuation of getValidToken() after `await this.refreshPromise`,
\* for the call at the head of the job queue; a getRates call goes on into
\* its own continuation (token in hand, rate request sent) or into its
\* catch block.
Resume ==
  /\ mq # <<>>
  /\ LET call == Head(mq)
         p == call.acq
         settled == acq[p].settled
         initiator == call.role = "initiator"
         tok == returnAfterAwait(IF initiator THEN settled
                                 ELSE awaitRefreshPromise(settled))
         handed == IF service.pc = "await" THEN {service.request} ELSE Requests
         reqs == IF call.kind = "rates" /\ tok.ok THEN handed ELSE {NoRequest}
         via == Via(service.entry, NoInput, Undefined, NoDefaults)
         a == call.adapter
         cached1 == IF initiator
                      THEN cachedAfterAwait(settled, cached[a], refreshPromise[a], p)
                      ELSE cached[a]
         acq1 == IF acq[p].live = 1
                   THEN [acq EXCEPT ![p] = UnusedAcq]
                   ELSE [acq EXCEPT ![p].live = @ - 1]
     IN /\ mq' = Tail(mq)
        /\ cached' = [cached EXCEPT ![a] = cached1]
        /\ refreshPromise' = IF initiator
                               THEN [refreshPromise EXCEPT
                                       ![a] = markerAfterAwait(settled, @)]
                               ELSE refreshPromise
        /\ acq' = acq1
        /\ \E req \in reqs :
             LET done == [call EXCEPT !.tok = tok, !.pc = "haveToken", !.req = req]
                 sends == call.kind = "rates" /\ tok.ok /\ requestBuilds(req)
             IN /\ rateWait' = IF sends
                                 THEN rateWait (+) SetToBag({sendRateRequest(done)})
                                 ELSE rateWait
                /\ ev' = Within(
                           IF call.kind = "token"
                             THEN Completed(done, settled, acq[p].invalidated, 0,
                                            NoResult)
                           ELSE IF sends
                             THEN Completed(sendRateRequest(done), settled,
                                            acq[p].invalidated, 0, NoResult)
                           ELSE IF tok.ok
                             THEN Completed(buildFailure(done), settled,
                                            acq[p].invalidated, 0, buildFailureResult)
                           ELSE Completed([done EXCEPT !.pc = "returned"], settled,
                                          acq[p].invalidated, 0,
                                          getRatesCatch(tok.error)),
                           via)
        /\ service' = delivered(service, ev')
        /\ hist' = [hist EXCEPT
                      !.lastFailed = @ \/ (initiator /\ ~settled.ok)]
        /\ UNCHANGED <<now, mapper>>

invalidateToken_Shared(a) ==
  /\ cached' = [b \in Adapters |-> NoToken]
  /\ refreshPromise' = [b \in Adapters |-> 0]
  /\ acq' = [p \in AcqIds |->
               IF acq[p].live > 0 THEN [acq[p] EXCEPT !.invalidated = TRUE]
               ELSE acq[p]]

\* invalidateToken() of adapter a: both fields are cleared
invalidateToken(a) ==
  /\ cached' = [cached EXCEPT ![a] = NoToken]
  /\ refreshPromise' = [refreshPromise EXCEPT ![a] = 0]
  /\ acq' = [p \in AcqIds |->
               IF acq[p].live > 0 /\ acq[p].owner = a
                 THEN [acq[p] EXCEPT !.invalidated = TRUE]
                 ELSE acq[p]]

\* invalidateToken() called by a user of the token cache
Invalidate ==
  /\ ~MidSettlement
  /\ invalidateToken("ups")
  /\ hist' = [hist EXCEPT !.invalPending = TRUE]
  /\ ev' = NoEvent
  /\ UNCHANGED <<now, mq, rateWait, service, mapper>>

\* The rate endpoint answers the request of `call` (or the transport
\* fails) with one of `outcomes` and getRates runs to its return
RespondTo(call, outcomes) ==
  /\ ~MidSettlement
  /\ BagIn(call, rateWait)
  /\ \E out \in outcomes :
    /\ LET cl == classifyRateResponse(out)
       IN /\ ev' = Within(Handled(Completed([call EXCEPT !.pc = "returned"],
                                              Thrown(NoError), FALSE,
                                              IF out.fail = "" THEN out.status ELSE 0,
                                              cl.result),
                                    out),
                            Via(service.entry, NoInput, Undefined, NoDefaults))
          /\ service' = delivered(service, ev')
          /\ IF cl.invalidate
               THEN /\ invalidateToken(call.adapter)
                    /\ hist' = [hist EXCEPT !.invalPending = TRUE,
                                            !.authPending = TRUE]
               ELSE UNCHANGED <<cached, refreshPromise, acq, hist>>
    /\ rateWait' = rateWait (-) SetToBag({call})
    /\ UNCHANGED <<now, mq, mapper>>

\* any of the outstanding rate requests is answered
Respond(outcomes) == \E call \in BagToSet(rateWait) : RespondTo(call, outcomes)

RateResponse == Respond(SampleRateOutcomes)
AnyRateResponse == Respond(RateOutcomes)

\* the clock advances
Tick ==
  /\ ~MidSettlement
  /\ now < MaxTicks * TickMs
  /\ now' = now + TickMs
  /\ ev' = NoEvent
  /\ UNCHANGED <<cached, refreshPromise, acq, mq, rateWait, hist, service, mapper>>

\* the token cache, the rate operation and the clock are left as they are
AdapterUnchanged ==
  UNCHANGED <<now, cached, refreshPromise, acq, mq, rateWait, hist, mapper>>

\* getUpsRatePath(request) and buildUpsRateRequest(request) applied to the
\* request at hand
Encode ==
  /\ mapper.kind = "request"
  /\ ~mapper.done
  /\ mapper' = [mapper EXCEPT !.done = TRUE,
                              !.path = getUpsRatePath(mapper.request),
                              !.wire = buildUpsRateRequest(mapper.request)]
  /\ UNCHANGED <<now, cached, refreshPromise, acq, mq, rateWait, ev, hist, service>>

\* parseUpsRateResponse(body, CARRIER_ID) applied to the body at hand
Decode ==
  /\ mapper.kind = "body"
  /\ ~mapper.done
  /\ mapper' = [mapper EXCEPT
                  !.done = TRUE,
                  !.result = parseUpsRateResponse(mapper.body),
                  !.mapped = IF mapper.body.kind = "rates" /\ mapper.body.rated # NoRated
                               THEN mapRatedShipments(ratedList(mapper.body.rated),
                                                      CARRIER_ID)
                               ELSE <<>>]
  /\ UNCHANGED <<now, cached, refreshPromise, acq, mq, rateWait, ev, hist, service>>

\* parseUpsRateResponse applied once more, to the body just decoded with
\* its single rated shipment as a one-element array
DecodeAsArray ==
  /\ mapper.kind = "body"
  /\ mapper.done
  /\ mapper.body.rated.kind = "object"
  /\ mapper.twin = NoResult
  /\ mapper' = [mapper EXCEPT
                  !.twin = parseUpsRateResponse(
                             [mapper.body EXCEPT !.rated = RatedArray(@.items)])]
  /\ UNCHANGED <<now, cached, refreshPromise, acq, mq, rateWait, ev, hist, service>>

\* the service call `via` calls adapter.rate.getRates(request) on the
\* adapter registered under id, with `ids` left to visit: the synchronous
\* part of that call runs in the same step.  s is the service call so far.
dispatch(via, s, id, ids) ==
  /\ Start(id, "rates", MaxCalls, {s.request}, via)
  /\ service' = delivered([s EXCEPT !.pc = "await", !.entry = via.entry,
                                    !.current = id, !.ids = ids,
                                    !.calls = Append(@, AdapterCall(id, NoResult))],
                           ev')

\* CarrierService.getRates(request, options): validation, carrier lookup,
\* then the adapter's getRates, whose result is returned as it is
ServiceGetRates ==
  /\ ~MidSettlement
  /\ service.pc = "idle"
  /\ \E input \in RawInputs, option \in CarrierIdOptions, defaults \in DefaultChoices :
       LET via == Via("getRates", input, option, defaults)
           parseResult == parseRateRequest(input)
           carrierId == resolveCarrierId(option, defaults)
       IN IF ~parseResult.success \/ isFalsy(carrierId) \/ ~carriersGet(carrierId)
            THEN /\ ev' = ServiceReturned(via, Failure(validationError), NoAggregate)
                 /\ UNCHANGED service
                 /\ AdapterUnchanged
            ELSE dispatch(via, [IdleService EXCEPT !.request = parseResult.data],
                          carrierId, <<>>)

\* The loop of getRatesFromAllCarriers from s.ids on: the next registered
\* carrier is called, or the aggregate is returned
fanOut(via, s) ==
  LET todo == dropUnregistered(s.ids)
  IN IF todo = <<>>
       THEN /\ ev' = Of(ServiceReturned(via, Success(<<>>),
                                        Aggregate(s.quotes, s.errors)), s)
            /\ service' = IdleService
            /\ AdapterUnchanged
       ELSE dispatch(via, s, Head(todo), Tail(todo))

\* CarrierService.getRatesFromAllCarriers(request), up to its first await:
\* validation (a failure is thrown), then the loop
ServiceGetRatesFromAllCarriers ==
  /\ ~MidSettlement
  /\ service.pc = "idle"
  /\ \E input \in RawInputs, defaults \in DefaultChoices :
       LET via == Via("all", input, Undefined, defaults)
           parseResult == parseRateRequest(input)
       IN IF ~parseResult.success
            THEN /\ ev' = ServiceReturned(via, Raised(validationError), NoAggregate)
                 /\ UNCHANGED service
                 /\ AdapterUnchanged
            ELSE fanOut(via, [IdleService EXCEPT !.request = parseResult.data,
                                                 !.ids = carrierIdsOf(defaults),
                                                 !.carrierIds = carrierIdsOf(defaults)])

\* getRatesFromAllCarriers after `await adapter.rate.getRates(...)`: the
\* result has been pushed, the loop goes on
FanOutNext ==
  /\ ~MidSettlement
  /\ service.pc = "ready"
  /\ fanOut(Via("all", NoInput, Undefined, NoDefaults), service)

\* The token cache alone, driven by overlapping direct getValidToken()
\* calls and invalidateToken() calls
NextCache ==
  \/ StartGetValidToken
  \/ SettleAcquisition
  \/ Resume
  \/ Invalidate
  \/ Tick

SpecCache == Init /\ [][NextCache]_vars

\* The rate operation on its token cache, driven by overlapping getRates
\* calls
Next ==
  \/ StartGetRates
  \/ SettleAcquisition
  \/ Resume
  \/ RateResponse
  \/ Tick

Spec == Init /\ [][Next]_vars

\* The rate operation called one call at a time, over every outcome of the
\* token endpoint and of the rate endpoint
NextRate ==
  \/ StartGetRatesAlone
  \/ SettleAnyAcquisition
  \/ Resume
  \/ AnyRateResponse
  \/ Tick

SpecRate == Init /\ [][NextRate]_vars

\* The service facade over the adapter, one service call at a time
NextService ==
  \/ ServiceGetRates
  \/ ServiceGetRatesFromAllCarriers
  \/ FanOutNext
  \/ SettleAcquisition
  \/ Resume
  \/ RateResponse
  \/ Tick

SpecService == Init /\ [][NextService]_vars

\* the rate responses that matter to who waits on whom: a success, and the
\* 401 that invalidates the token
LiveRateOutcomes ==
  {Outcome("", 200, NoHeader, RateBody("rates", "", SampleRated)),
   Outcome("", 401, NoHeader, RateBody("notJson", "", NoRated))}
LiveTokenOutcomesOf == [a \in Adapters |-> [p \in AcqIds |-> LiveTokenOutcomes(a, p)]]

SettleLive == Settle(LiveTokenOutcomesOf)
RateResponseLive == Respond(LiveRateOutcomes)

\* Two adapters, each called directly by getRates calls that may overlap;
\* a token is re-acquired after a failed acquisition and after a 401
NextAdapters ==
  \/ StartGetRatesOnAny
  \/ SettleLive
  \/ Resume
  \/ RateResponseLive

SpecAdapters == Init /\ [][NextAdapters]_vars

\* Overlapping getValidToken() calls and invalidateToken() on one adapter,
\* with getRates calls made one after the other among them, as they are
\* scheduled: the job queue runs every queued continuation, and every send
\* issued is answered or fails
NextLive ==
  \/ StartGetValidToken
  \/ StartGetRatesInTurn
  \/ SettleLive
  \/ Resume
  \/ RateResponseLive
  \/ Invalidate

\* The rate request of a waiting getRates call is answered: what a
\* RateResponseLive step does to rateWait.  No other step of NextLive takes
\* a call out of rateWait, and it is enabled exactly when RateResponseLive is
RateRequestAnswered ==
  /\ ~MidSettlement
  /\ \E call \in BagToSet(rateWait) : rateWait' = rateWait (-) SetToBag({call})

\* Every queued continuation is run (the job queue is drained), every token
\* request sent is answered or fails, and so is every rate request sent; the
\* answer may have to wait for the reactions of a settlement to run first
Fairness ==
  /\ WF_vars(Resume)
  /\ \A p \in AcqIds : SF_vars(SettlePromise(p, LiveTokenOutcomesOf))
  /\ SF_rateWait(RateRequestAnswered)

SpecLive == Init /\ [][NextLive]_vars /\ Fairness

\* getRates calls that may overlap on one adapter, with every kind of rate
\* response; a token is re-acquired after a 401 or 403 and after a failed
\* acquisition
NextOverlap ==
  \/ StartGetRates
  \/ SettleLive
  \/ Resume
  \/ AnyRateResponse

SpecOverlap == Init /\ [][NextOverlap]_vars

\* The mapper as a pair of pure functions, over every request and every
\* response body of the bounded input sets
NextMapper ==
  \/ Encode
  \/ Decode
  \/ DecodeAsArray

SpecMapper == InitMapper /\ [][NextMapper]_vars

-----------------------------------------------------------------------------
(* Properties *)

\* a getValidToken() call (direct or inside getRates) began in the last step
CallStarted == ev.type = "start"
\* getValidToken() returned or threw, after its await, in the last step
TokenCallResumed == ev.type = "complete" /\ ev.call.role # "hit" /\ ev.rateStatus = 0
                      /\ ev.promise # Thrown(NoError)
\* getRates returned in the last step
RatesReturned == ev.call.pc = "returned"

\* C1: calls that overlap share one token request.  A call sends a token
\* request only when no token request issued since the last
\* invalidateToken() is still outstanding, and every call that awaited a
\* successful acquisition returns that acquisition's token string.
C1_OneSendPerBurst ==
  /\ (CallStarted /\ ev.call.role = "initiator")
       => \A p \in Pending \ {ev.call.acq} : acq[p].invalidated
  /\ (TokenCallResumed /\ ev.promise.ok)
       => ev.call.tok = Returned(ev.promise.token.accessToken)

\* C2: at most one token-endpoint request is outstanding in every reachable
\* state.
C2_AtMostOneOutstanding == Cardinality(Pending) <= 1

\* C3: when an acquisition fails, every call that awaited it (initiator or
\* attached waiter) fails with the acquisition's error, and the call has
\* sent nothing beyond the acquisition's own request: one token request for
\* the initiator, none for a waiter.
C3_SharedFailure ==
  (TokenCallResumed /\ ~ev.promise.ok)
    => /\ ev.call.tok = Rejected(ev.promise.error)
       /\ ev.call.tokenSends = (IF ev.call.role = "initiator" THEN 1 ELSE 0)

C3_Witness ==
  /\ TokenCallResumed
  /\ ev.call.role = "waiter"
  /\ ev.promise = Thrown(rawError("ECONNRESET"))

\* C4: when the initiator of a failed acquisition resumes, the in-flight
\* marker is cleared, and the first getValidToken() call after that issues a
\* new token request.
C4_RetryAfterFailure ==
  /\ (TokenCallResumed /\ ev.call.role = "initiator" /\ ~ev.promise.ok)
       => refreshPromise[ev.call.adapter] = 0
  /\ (CallStarted /\ ev.afterFail)
       => ev.call.role = "initiator" /\ ev.call.tokenSends = 1

\* C5: the first getValidToken() call after invalidateToken() performs a
\* fresh acquisition: it issues a token request of its own.
C5_FreshAfterInvalidate ==
  (CallStarted /\ ev.afterInval)
    => ev.call.role = "initiator" /\ ev.call.tokenSends = 1

\* C6: an acquisition that was in flight when invalidateToken() ran is not
\* altered: each call that awaited it gets its outcome, and on success its
\* initiator writes the token into the cache.
C6_InFlightUnaffected ==
  (TokenCallResumed /\ ev.invalidated)
    => /\ ev.call.tok = (IF ev.promise.ok
                           THEN Returned(ev.promise.token.accessToken)
                           ELSE Rejected(ev.promise.error))
       /\ (ev.call.role = "initiator" /\ ev.promise.ok)
            => cached[ev.call.adapter] = ev.promise.token

C6_Witness ==
  /\ TokenCallResumed
  /\ ev.invalidated
  /\ ev.call.role = "initiator"
  /\ ev.promise.ok
  /\ refreshPromise[ev.call.adapter] = 0

\* C7: a call is served from the cache, with no token request, exactly when
\* a token is cached and now < expiresAt - 60 s; it then returns the cached
\* token string.
C7_CacheHitIffValid ==
  CallStarted
    => /\ ev.call.role = "hit"
            <=> /\ cached[ev.call.adapter] # NoToken
                /\ now < cached[ev.call.adapter].expiresAtMs - 60000
       /\ ev.call.role = "hit"
            => /\ ev.call.tokenSends = 0
               /\ ev.call.tok = Returned(cached[ev.call.adapter].accessToken)

C7_Witness ==
  /\ CallStarted
  /\ ev.call.role = "hit"
  /\ now > 0

\* C8: on a 401/403 of the rate endpoint getRates returns AUTH_FAILED and
\* leaves the cache empty, and the first getRates call after it sends a
\* token request before its rate request.
C8_ReacquireAfterAuthFailure ==
  /\ (RatesReturned /\ ev.rateStatus \in {401, 403})
       => ev.result = Failure(authError) /\ cached[ev.call.adapter] = NoToken
  /\ (CallStarted /\ ev.afterAuth)
       => ev.call.role = "initiator" /\ ev.call.tokenSends = 1 /\ ev.call.rateSends = 0

\* C9: getRates never raises: whenever it returns, the result is a success
\* value or an error value whose kind is one of the eight taxonomy kinds.
C9_NeverRaises ==
  RatesReturned
    => \/ ev.result.out = "value"
       \/ /\ ev.result.out = "error"
          /\ ev.result.error.cie
          /\ ev.result.error.code \in CarrierErrorCode

C9_Witness ==
  /\ RatesReturned
  /\ ev.call.rateSends = 0
  /\ ev.promise = Thrown(rawError("ECONNRESET"))
  /\ ev.result = Failure(malformedResponseError)

\* C10: rate responses are classified by status in a fixed order: 401/403
\* is AUTH_FAILED, 429 is RATE_LIMITED with httpStatus 429, every other
\* status >= 400 except 400 is CARRIER_ERROR with the response status.
C10_StatusOrder ==
  RatesReturned
    => /\ ev.rateStatus \in {401, 403}
            => ev.result.out = "error" /\ ev.result.error.code = "AUTH_FAILED"
       /\ ev.rateStatus = 429
            => /\ ev.result.out = "error"
               /\ ev.result.error.code = "RATE_LIMITED"
               /\ ev.result.error.httpStatus = 429
       /\ (ev.rateStatus >= 400 /\ ev.rateStatus \notin {400, 401, 403, 429})
            => /\ ev.result.out = "error"
               /\ ev.result.error.code = "CARRIER_ERROR"
               /\ ev.result.error.httpStatus = ev.rateStatus

C10_Witness ==
  /\ RatesReturned
  /\ ev.rateStatus = 403
  /\ ev.result = Failure(authError)

\* an acquisition handled the outcome of its token request in the last step
TokenSettled == ev.type = "settle"
\* getRates handled the outcome of its rate request and returned in the
\* last step
RateAnswered == RatesReturned /\ ev.type = "complete" /\ ev.promise = Thrown(NoError)
\* getRates returned in the last step because getValidToken() threw
TokenFailedInRates ==
  RatesReturned /\ ev.type = "complete" /\ ev.promise # Thrown(NoError)
    /\ ~ev.call.tok.ok

\* C11: a rate response with status 400 gives INVALID_REQUEST with
\* httpStatus 400 for every body; the native code is carried when the body
\* holds a carrier error, and not otherwise.
C11_BadRequest ==
  (RateAnswered /\ ev.rateStatus = 400)
    => /\ ev.result.out = "error"
       /\ ev.result.error.code = "INVALID_REQUEST"
       /\ ev.result.error.httpStatus = 400
       /\ ev.result.error.carrierCode =
            (IF ev.out.body.kind = "errors" THEN ev.out.body.code ELSE "")

\* C12: a transport failure other than a timeout, on the rate request or on
\* the token request made inside getRates, makes getRates return
\* NETWORK_ERROR.
C12_NetworkError ==
  /\ (RateAnswered /\ ev.out.fail \in HttpErrorCodes \ {"ETIMEDOUT"})
       => ev.result.out = "error" /\ ev.result.error.code = "NETWORK_ERROR"
  /\ (TokenFailedInRates /\ ~ev.promise.error.cie)
       => ev.result.out = "error" /\ ev.result.error.code = "NETWORK_ERROR"

\* C13: a timeout of the token request settles the acquisition with
\* TIMEOUT, getValidToken() fails with it, and getRates returns TIMEOUT
\* both for that and for a timeout of its rate request.
C13_Timeouts ==
  /\ (TokenSettled /\ ev.out.fail = "ETIMEDOUT")
       => ev.promise = Thrown(timeoutError)
  /\ (TokenCallResumed /\ ev.promise = Thrown(timeoutError))
       => /\ ev.call.tok = Rejected(timeoutError)
          /\ ev.call.kind = "rates" => ev.result = Failure(timeoutError)
  /\ (RateAnswered /\ ev.out.fail = "ETIMEDOUT")
       => ev.result = Failure(timeoutError)

C13_Witness ==
  /\ TokenFailedInRates
  /\ ev.call.role = "initiator"
  /\ ev.call.tok = Rejected(timeoutError)
  /\ ev.result = Failure(timeoutError)

\* C14: whenever getValidToken() fails, what it throws is a
\* CarrierIntegrationError whose kind is one of the eight taxonomy kinds.
C14_TokenFailuresClassified ==
  (TokenCallResumed /\ ~ev.call.tok.ok)
    => /\ ev.call.tok.error.cie
       /\ ev.call.tok.error.code \in CarrierErrorCode

\* C15: a token response with status 429 is RATE_LIMITED; with 401, 403 or
\* any other status but 200 it is AUTH_FAILED; with status 200 and a body
\* that is not JSON or has no string access_token it is AUTH_FAILED; a
\* token is produced exactly for status 200 with a string access_token, and
\* it is that string.
C15_TokenClassification ==
  (TokenSettled /\ ev.out.fail = "")
    => /\ ev.out.status = 429
            => ~ev.promise.ok /\ ev.promise.error.code = "RATE_LIMITED"
       /\ ev.out.status \notin {200, 429}
            => ~ev.promise.ok /\ ev.promise.error.code = "AUTH_FAILED"
       /\ (ev.out.status = 200 /\ ev.out.body.kind # "ok")
            => ~ev.promise.ok /\ ev.promise.error.code = "AUTH_FAILED"
       /\ ev.promise.ok <=> (ev.out.status = 200 /\ ev.out.body.kind = "ok")
       /\ ev.promise.ok
            => ev.promise.token.accessToken = ev.out.body.access_token
       /\ ~ev.promise.ok => ev.promise.error.cie

C15_Witness ==
  /\ TokenSettled
  /\ ev.out.status = 200
  /\ ev.out.body.kind = "nonString"
  /\ ev.promise = Thrown(authError)

\* C16: a 429 of the token endpoint or of the rate endpoint gives
\* RATE_LIMITED with httpStatus 429; when the retry-after header holds the
\* number n the error carries n, and it carries no value only when the
\* header is absent.
C16_RetryAfterCarried ==
  /\ (TokenSettled /\ ev.out.fail = "" /\ ev.out.status = 429)
       => /\ ev.promise.error.code = "RATE_LIMITED"
          /\ ev.promise.error.httpStatus = 429
          /\ ev.promise.error.retryAfter = retryAfterOf(ev.out.retryAfter)
  /\ (RateAnswered /\ ev.rateStatus = 429)
       => /\ ev.result.error.code = "RATE_LIMITED"
          /\ ev.result.error.httpStatus = 429
          /\ ev.result.error.retryAfter = retryAfterOf(ev.out.retryAfter)

\* C17: a rate response with status 200 whose body is not JSON makes
\* getRates return MALFORMED_RESPONSE.
C17_MalformedSuccessBody ==
  (RateAnswered /\ ev.rateStatus = 200 /\ ev.out.body.kind = "notJson")
    => ev.result = Failure(malformedResponseError)

C17_Witness ==
  /\ RateAnswered
  /\ ev.rateStatus = 200
  /\ ev.out.body.kind = "notJson"
  /\ ev.result.error.code = "MALFORMED_RESPONSE"

\* the raw input is one the schema of the validator rejects
FailsValidation(input) == input \in {"malformed", "emptyAddressLines"}
\* a call on the service facade is made in the step
ServiceCalled(e) == e.input # NoInput
\* a call on the service facade completed in the last step
ServiceCompleted ==
  /\ ev.entry # ""
  /\ ev.type = "service" \/ (ev.entry = "getRates" /\ RatesReturned)

\* C18: a service call whose input fails validation completes in the step
\* it is made in, with no token request and no rate request sent and the
\* token cache as it was; Service.getRates returns VALIDATION_ERROR.
C18_ValidationBeforeNetwork ==
  [][(ServiceCalled(ev') /\ FailsValidation(ev'.input))
       => /\ ev'.type = "service"
          /\ ev'.entry = "getRates" => ev'.result = Failure(validationError)
          /\ UNCHANGED <<cached, refreshPromise, acq, mq, rateWait>>]_vars

C18_Witness ==
  /\ ev.type = "service"
  /\ ev.entry = "getRates"
  /\ ev.input = "emptyAddressLines"
  /\ ev.result = Failure(validationError)
  /\ cached["ups"] # NoToken

\* C19: Service.getRates with valid input whose target carrier id
\* (options.carrierId, else the first configured default) is missing or
\* has no registered adapter returns VALIDATION_ERROR in the step it is
\* made in, with no adapter call and no send.
C19_UnknownCarrier ==
  [][(/\ ServiceCalled(ev')
      /\ ev'.entry = "getRates"
      /\ ~FailsValidation(ev'.input)
      /\ LET target == IF ev'.option # Undefined THEN ev'.option
                       ELSE IF ev'.defaults.defined /\ ev'.defaults.ids # <<>>
                         THEN ev'.defaults.ids[1]
                       ELSE Undefined
         IN target \in {Undefined, ""} \/ target \notin Registered)
       => /\ ev'.type = "service"
          /\ ev'.result = Failure(validationError)
          /\ UNCHANGED <<cached, refreshPromise, acq, mq, rateWait>>]_vars

C19_Witness ==
  /\ ev.type = "service"
  /\ ev.entry = "getRates"
  /\ ev.input = "valid"
  /\ ev.option = "fedex"
  /\ ev.defaults.ids = <<"ups">>
  /\ ev.result = Failure(validationError)

\* C20: every call of Service.getRates and of getRatesFromAllCarriers
\* completes by returning a value, never by throwing.
C20_ServiceNeverRaises ==
  ServiceCompleted => ev.result.out \in {"value", "error"}

\* C23: a getRates call has issued at most one rate request and at most one
\* token request when it returns, whatever it was answered.
C23_NoRetries ==
  RatesReturned => ev.call.tokenSends <= 1 /\ ev.call.rateSends <= 1

C23_Witness ==
  /\ RateAnswered
  /\ ev.rateStatus = 429
  /\ ev.call.tokenSends = 1
  /\ ev.call.rateSends = 1

\* C30: getRates called on the adapter with a request the validator would
\* reject returns VALIDATION_ERROR and has sent nothing.
C30_AdapterValidatesFirst ==
  (RatesReturned /\ ev.entry = "" /\ FailsValidation(ev.call.req))
    => /\ ev.result = Failure(validationError)
       /\ ev.call.tokenSends = 0
       /\ ev.call.rateSends = 0

\* the encoder has been applied to a request that passes the schema
Encoded ==
  /\ mapper.kind = "request"
  /\ mapper.done
  /\ serviceLevelFilterSchema(mapper.request.serviceLevel)
\* the decoder has been applied to a body and returned
DecodedBody == mapper.kind = "body" /\ mapper.done /\ mapper.result.out = "value"
\* the rated-shipment records of the body decoded, in source order
Records == mapper.body.rated.items

\* C26: a valid request without a service-level filter is encoded to the
\* Shop path with RequestOption Shop; a valid request whose filter carries
\* a service code is encoded to the Rate path with RequestOption Rate and
\* Shipment.Service.Code equal to that code.
C26_ModeFollowsServiceCode ==
  Encoded
    => /\ ~mapper.request.serviceLevel.present
            => /\ mapper.path = <<"/rating/v2409/", "Shop">>
               /\ mapper.wire.RequestOption = "Shop"
       /\ (mapper.request.serviceLevel.present
             /\ mapper.request.serviceLevel.serviceCode.defined)
            => /\ mapper.path = <<"/rating/v2409/", "Rate">>
               /\ mapper.wire.RequestOption = "Rate"
               /\ mapper.wire.Service.present
               /\ mapper.wire.Service.Code = mapper.request.serviceLevel.serviceCode.value

\* C27: decoding a response whose RatedShipment is one object and decoding
\* the response that holds the same object as a one-element array give the
\* same quote sequence and the same request id.
C27_ObjectAsArray ==
  (DecodedBody /\ mapper.twin # NoResult)
    => /\ mapper.twin.out = "value"
       /\ mapper.twin.quotes = mapper.result.quotes
       /\ mapper.twin.requestId = mapper.result.requestId

C27_Witness ==
  /\ DecodedBody
  /\ mapper.twin # NoResult
  /\ Len(mapper.result.quotes) = 1
  /\ mapper.result.requestId = "req-1"

NonNegative(q) == ~q.totalCharge.nan /\ q.totalCharge.hundredths >= 0

\* C29: the decoded quotes are the quotes of the records whose charge is
\* >= 0, in the source order of the records; none has a negative
\* totalCharge; a record without a charge field is kept, at totalCharge 0;
\* when every record has a charge >= 0 or no charge field there are as many
\* quotes as records.
C29_KeepsNonNegative ==
  DecodedBody
    => /\ mapper.result.quotes = SelectSeq(mapper.mapped, NonNegative)
       /\ \A i \in DOMAIN mapper.result.quotes :
            NonNegative(mapper.result.quotes[i])
       /\ (\A i \in DOMAIN mapper.mapped :
             \/ NonNegative(mapper.mapped[i])
             \/ /\ ~Records[i].NegotiatedTotalCharge.MonetaryValue.defined
                /\ ~Records[i].TransportationCharges.MonetaryValue.defined)
            => Len(mapper.result.quotes) = Len(Records)

C29_Witness ==
  /\ DecodedBody
  /\ Len(Records) = 2
  /\ Records[1].NegotiatedTotalCharge.MonetaryValue = Some(<<"-", "5", ".", "0", "0">>)
  /\ ~Records[2].NegotiatedTotalCharge.present
  /\ ~Records[2].TransportationCharges.present
  /\ Len(mapper.result.quotes) = 1
  /\ mapper.result.quotes[1].totalCharge = Num(0)

\* getRatesFromAllCarriers returned its aggregate in the last step
AllReturned == ev.type = "service" /\ ev.entry = "all" /\ ev.result.out = "value"
\* the ids of a list that have a registered adapter, in the order of the list
RegisteredOf(ids) == SelectSeq(ids, LAMBDA id : id \in Registered)

\* C21: getRatesFromAllCarriers with valid input calls the adapter of every
\* configured id that is registered, once each and in configured order,
\* whatever the results of the earlier calls; an adapter is called only when
\* the result of every earlier call is in, so that at most one of its calls
\* is in progress.
C21_SequentialFanOut ==
  /\ AllReturned
       => [i \in 1 .. Len(ev.calls) |-> ev.calls[i].carrierId]
            = RegisteredOf(ev.carrierIds)
  /\ service.entry = "all"
       => /\ InProgress <= 1
          /\ \A i \in 1 .. Len(service.calls) - 1 : service.calls[i].result # NoResult

C21_Witness ==
  /\ AllReturned
  /\ Len(ev.calls) = 2
  /\ ev.calls[1].result.out = "error"
  /\ ev.calls[2].result.out = "value"
  /\ ev.carrierIds = <<"ups2", "fedex", "ups">>

\* the quotes of the adapter calls that succeeded, in call order, each
\* carrying the id its call was made under
RECURSIVE QuotesOf(_)
QuotesOf(calls) ==
  IF calls = <<>> THEN <<>>
  ELSE LET c == Head(calls)
       IN (IF c.result.out = "value"
             THEN [i \in 1 .. Len(c.result.quotes) |->
                     [c.result.quotes[i] EXCEPT !.carrierId = c.carrierId]]
             ELSE <<>>)
            \o QuotesOf(Tail(calls))
\* one entry per adapter call that failed, in call order
RECURSIVE ErrorsOf(_)
ErrorsOf(calls) ==
  IF calls = <<>> THEN <<>>
  ELSE LET c == Head(calls)
       IN (IF c.result.out = "error"
             THEN <<[carrierId |-> c.carrierId, error |-> c.result.error]>>
             ELSE <<>>)
            \o ErrorsOf(Tail(calls))

\* C22: the value getRatesFromAllCarriers returns holds, in dispatch order,
\* the quotes of every adapter call that succeeded (in response order, each
\* tagged with the id the call was dispatched under) and one errors entry
\* {carrierId, error} per adapter call that failed, and nothing else.
C22_AggregateComplete ==
  AllReturned
    => /\ ev.all.quotes = QuotesOf(ev.calls)
       /\ ev.all.errors = ErrorsOf(ev.calls)

C22_Witness ==
  /\ AllReturned
  /\ Len(ev.calls) = 2
  /\ Len(ev.all.quotes) = 2
  /\ ev.all.quotes[1].carrierId = "ups2"
  /\ ev.all.errors = <<[carrierId |-> "ups", error |-> authError]>>

\* C24: a step changes the cached token or the in-flight marker of an
\* adapter only when it is a step of a call made on that adapter, and the
\* bearer token of every rate request in flight was issued to the adapter
\* that sent it.
C24_AdaptersIsolated ==
  [][/\ \A b \in Adapters :
          (cached'[b] # cached[b] \/ refreshPromise'[b] # refreshPromise[b])
            => ev'.call.adapter = b
     /\ \A call \in BagToSet(rateWait') :
          call.tok.accessToken[2] = call.adapter]_vars

C24_Witness ==
  /\ RateAnswered
  /\ ev.rateStatus = 401
  /\ ev.call.adapter = "ups"
  /\ cached["ups"] = NoToken
  /\ cached["ups2"] # NoToken
  /\ \E call \in BagToSet(rateWait) : call.adapter = "ups2"

\* C25: when every send issued is eventually answered or fails, every call
\* suspended in getValidToken() eventually resumes and every getRates call
\* awaiting its rate response eventually returns, however calls and
\* invalidateToken() interleave; and once the initiator of a timed-out
\* acquisition has resumed, the in-flight marker no longer holds that
\* acquisition.
C25_EveryCallCompletes ==
  /\ \A p \in AcqIds : (acq[p].live > 0) ~> (acq[p].live = 0)
  /\ (rateWait # EmptyBag) ~> (rateWait = EmptyBag)
  /\ []((TokenCallResumed /\ ev.call.role = "initiator"
           /\ ev.promise = Thrown(timeoutError))
          => refreshPromise[ev.call.adapter] # ev.call.acq)

C25_Witness ==
  /\ CallStarted
  /\ ev.afterFail
  /\ ev.call.kind = "rates"
  /\ ev.call.role = "initiator"
  /\ \E p \in AcqIds \ {ev.call.acq} : acq[p].live > 0

\* the kinds of error an acquisition fails with
AcquisitionErrorKinds == {"AUTH_FAILED", "RATE_LIMITED", "TIMEOUT"}

\* C31: within one getRates call the token comes first: a call that sends a
\* token request has sent no rate request yet, every rate request in flight
\* belongs to a call that holds a token, and that token is the one
\* getValidToken() returned to the call (the cached one on a hit, the
\* acquisition's otherwise); when the acquisition fails the call sends no
\* rate request and returns the acquisition's own error, whose kind is
\* AUTH_FAILED, RATE_LIMITED or TIMEOUT.
C31_TokenBeforeRate ==
  /\ (CallStarted /\ ev.call.kind = "rates" /\ ev.call.tokenSends > 0)
       => ev.call.rateSends = 0
  /\ \A call \in BagToSet(rateWait) : call.tok.ok /\ call.rateSends = 1
  /\ (CallStarted /\ ev.call.kind = "rates" /\ ev.call.role = "hit")
       => ev.call.tok = Returned(cached[ev.call.adapter].accessToken)
  /\ (TokenCallResumed /\ ev.call.kind = "rates" /\ ev.promise.ok)
       => ev.call.tok = Returned(ev.promise.token.accessToken)
  /\ TokenFailedInRates
       => /\ ev.call.rateSends = 0
          /\ ev.result = Failure(ev.promise.error)
          /\ ev.result.error.code \in AcquisitionErrorKinds

\* C32: once the initiator of a failed acquisition has resumed, the cache
\* slot of its adapter holds no token, also when a token that had gone
\* stale was cached before the attempt.
C32_NoTokenAfterFailure ==
  (TokenCallResumed /\ ev.call.role = "initiator" /\ ~ev.promise.ok)
    => cached[ev.call.adapter] = NoToken

\* C33: a token getValidToken() returns is outside the refresh buffer when
\* it is returned: now < expiresAt - 60 s, for the cached token served on a
\* hit and for the token of the acquisition handed to its initiator or to
\* an attached waiter.
C33_ReturnedOutsideBuffer ==
  /\ (CallStarted /\ ev.call.role = "hit")
       => now < cached[ev.call.adapter].expiresAtMs - REFRESH_BUFFER_MS
  /\ (TokenCallResumed /\ ev.call.tok.ok)
       => now < ev.promise.token.expiresAtMs - REFRESH_BUFFER_MS

\* C34: a request that passes the schema and carries a ServiceLevelFilter
\* (with a service code, with an empty one, or with a description only) is
\* encoded in Rate mode, path and request option; a request is encoded in
\* Shop mode only when it carries no filter.
C34_FilterSelectsRate ==
  Encoded
    => /\ mapper.request.serviceLevel.present
            => /\ mapper.path = <<"/rating/v2409/", "Rate">>
               /\ mapper.wire.RequestOption = "Rate"
       /\ (mapper.path = <<"/rating/v2409/", "Shop">>
             \/ mapper.wire.RequestOption = "Shop")
            => ~mapper.request.serviceLevel.present

\* the encoder has been applied to a request, valid or not
EncodedAny == mapper.kind = "request" /\ mapper.done

\* C38: for every RateRequest the path of getUpsRatePath and the
\* RequestOption of buildUpsRateRequest name the same mode, Shop or Rate,
\* and Shipment.Service is in the body exactly in Rate mode.
C38_PathAndOptionAgree ==
  EncodedAny
    => /\ mapper.wire.RequestOption \in {"Shop", "Rate"}
       /\ mapper.path = <<"/rating/v2409/", mapper.wire.RequestOption>>
       /\ mapper.wire.Service.present <=> mapper.wire.RequestOption = "Rate"

C38_Witness ==
  /\ EncodedAny
  /\ mapper.request.serviceLevel.present
  /\ ~mapper.request.serviceLevel.serviceCode.defined
  /\ mapper.request.serviceLevel.description.defined
  /\ mapper.wire.RequestOption = "Shop"
  /\ ~mapper.wire.Service.present

\* C35: in the value getRatesFromAllCarriers returns every configured id
\* is accounted for: its adapter was called, or errors holds an entry for
\* it; an id with no registered adapter is not passed over in silence.
C35_EveryIdAccounted ==
  AllReturned
    => \A i \in DOMAIN ev.carrierIds :
         \/ \E j \in DOMAIN ev.calls : ev.calls[j].carrierId = ev.carrierIds[i]
         \/ \E j \in DOMAIN ev.all.errors :
              ev.all.errors[j].carrierId = ev.carrierIds[i]

\* C36: a step in which getRates handles the outcome of its rate request
\* leaves the cached token and the in-flight marker as they were, unless
\* the outcome is a response with status 401 or 403: so for every other
\* status, for a body that does not decode, and for a timeout or another
\* failure of the transport.
C36_OnlyAuthFailureInvalidates ==
  [][(RateAnswered' /\ ev'.rateStatus \notin {401, 403})
       => UNCHANGED <<cached, refreshPromise>>]_vars

C36_Witness ==
  /\ RateAnswered
  /\ ev.rateStatus = 429
  /\ refreshPromise[ev.call.adapter] # 0

\* C37: getRates returns a success result only for a rate response with a
\* status below 400 whose body parsed as JSON; a response with status >= 400
\* gives an error result with no quotes, whatever its body holds.
C37_SuccessOnlyBelow400 ==
  /\ (RatesReturned /\ ev.result.out = "value")
       => /\ RateAnswered
          /\ ev.out.fail = ""
          /\ ev.rateStatus < 400
          /\ ev.out.body.kind \notin {"notJson", "jsonNull"}
  /\ (RateAnswered /\ ev.rateStatus >= 400)
       => ev.result.out = "error" /\ ev.result.quotes = <<>>

C37_Witness ==
  /\ RateAnswered
  /\ ev.rateStatus = 500
  /\ ev.out.body = RateBody("rates", "", SampleRated)
  /\ ev.result = Failure(carrierError(500, ""))

====
